---- MODULE Spec2Model ----
(***************************************************************************)
(* Token authentication and session lifecycle of the chat backend          *)
(* (src/src/auth.rs, src/src/jwt.rs, src/src/http.rs).                     *)
(*                                                                         *)
(* Requests are handled concurrently; a request suspends only at a store   *)
(* round trip.  One action of the model is one store round trip together   *)
(* with the local computation that follows it up to the next round trip    *)
(* (or up to the response).  The local computation before the first round  *)
(* trip belongs to the action that starts the request.                     *)
(*                                                                         *)
(* Time is counted in whole seconds.  Strings that reach the store inside  *)
(* a query text (the email of login) are taken from plain identifiers      *)
(* without quote characters.  The CREATE of register is a round trip that  *)
(* either creates the row or answers with an error.                        *)
(***************************************************************************)
EXTENDS Integers, Sequences, FiniteSets, TLC

\* ------------------------------------------------------------------ bounds
\* Rows the jwt table may hold, and clock steps, in Spec
MaxRecords == 4
MaxTicks == 1
\* Rows in SpecRace (room for one login and two refresh calls)
RaceRecords == 6
\* Rows the user table may hold
MaxUsers == 4

\* --------------------------------------------------------------- constants
\* jsonwebtoken's Validation::new: leeway of 60 seconds on exp
Leeway == 60

\* Handler tasks
Procs == {1, 2}

\* Option::None of a string-valued and of a record-valued field
None == "none"
NoRec == [nil |-> TRUE]
\* A string that is not a JWT
Malformed == [malformed |-> TRUE]
Access == "access"
Refresh == "refresh"
Kinds == {Access, Refresh}

\* Secret values the two environment variables can hold, and a key that is
\* neither of them (a token signed by somebody else).
Secrets == {"ka", "kb"}
ForeignKey == "kx"
\* An environment variable that is not set
Absent == "absent"

\* Steps by which the clock advances between two actions.
\* (to the instant a token's record expires, one second past it, and one
\* second past the leeway of the exp check)
TickSteps == {10 * 60, 10 * 60 + 1, 60 * 60, 60 * 60 + 1, 60 * 60 + Leeway + 1}

VARIABLES
  secrets,   \* ACCESS / REFRESH: kind -> secret, fixed at load
  now,       \* Utc::now(), seconds
  ticks,     \* number of clock steps taken
  users,     \* table user: set of rows
  ledger,    \* table jwt: sequence of rows, row i has id i
  proc,      \* the request each handler task is serving
  consumed,  \* history: the refresh tokens refresh has answered 200 for, in order
  limits     \* the bounds of the specification being checked, fixed by Init

vars == <<secrets, now, ticks, users, ledger, proc, consumed, limits>>

\* ------------------------------------------------------------- credentials
\* bcrypt::hash / bcrypt::verify: the hash is not the password, and verify
\* succeeds exactly for the password that was hashed.
bcrypt_hash(password) == <<"bcrypt", password>>
bcrypt_verify(password, hash) == hash = bcrypt_hash(password)

\* Values of the [u8; 4] discriminator of a tag
Discriminators == {0, 1}
TagNames == {"t1", "t2"}

\* The user table at start: two users, who hold every discriminator of the
\* tag name t1
InitialUsers ==
  { [id |-> "u1", email |-> "e1", password_hash |-> bcrypt_hash("p1"), tag |-> <<"t1", 0>>],
    [id |-> "u2", email |-> "e2", password_hash |-> bcrypt_hash("p2"), tag |-> <<"t1", 1>>] }

\* Ids the store gives to the rows of user, in the order of their creation
UserIdPool == <<"u1", "u2", "u3", "u4", "u5", "u6">>

Emails == {"e1", "e2", "e3"}
Passwords == {"p1", "p2"}
\* Emails the clients of the two-task specifications log in with: one that
\* has a user and one that has none
RaceEmails == {"e1", "e3"}
\* Emails the clients register with: one that has a user and two that have none
RegEmails == {"e1", "e3", "e4"}
\* and the password they register with
RegPasswords == {"p3"}

\* ------------------------------------------------------------- token codec
\* JwtKind::expiry
expiry(kind) == IF kind = Access THEN 10 * 60 ELSE 60 * 60

\* Jwt::expired with >= for >: a record expires one second early
expired_early(jwt, t) == t >= jwt.issued_at + expiry(jwt.kind) \/ ~jwt.active

\* Jwt::expired without the test of the active flag
expired_ignores_active(jwt, t) == t > jwt.issued_at + expiry(jwt.kind)

\* Jwt::expired with the comparison turned round
expired_flipped(jwt, t) == t < jwt.issued_at + expiry(jwt.kind) \/ ~jwt.active

\* Jwt::expired
expired(jwt, t) == t > jwt.issued_at + expiry(jwt.kind) \/ ~jwt.active

\* Jwt::check
check(jwt, t) == IF ~expired(jwt, t) THEN jwt ELSE NoRec

\* A DateTime<Utc>, in milliseconds, of an instant given in seconds
DateTime(seconds) == seconds * 1000

\* jwt_numeric_date::serialize: date.timestamp(), whole seconds
jwt_numeric_date_serialize(date) == date \div 1000

\* jwt_numeric_date::deserialize: NaiveDateTime::from_timestamp_millis, the
\* number is taken as milliseconds
jwt_numeric_date_deserialize(n) == n

\* JwtKind::make with the lifetime of an access token for both kinds
encode_access_lifetime(kind, jw, iat) ==
  [uid |-> jw.uid, jti |-> jw.id, sub |-> kind,
   iat |-> jwt_numeric_date_serialize(DateTime(iat)),
   exp |-> jwt_numeric_date_serialize(DateTime(iat + expiry(Access))), key |-> secrets[kind]]

\* The token string JwtKind::make encodes for the record jw, with iat taken
\* before the create: claims on the wire, and the secret that signed them.
encode(kind, jw, iat) ==
  [uid |-> jw.uid, jti |-> jw.id, sub |-> kind,
   iat |-> jwt_numeric_date_serialize(DateTime(iat)),
   exp |-> jwt_numeric_date_serialize(DateTime(iat + expiry(kind))), key |-> secrets[kind]]

\* jsonwebtoken::decode with Validation::new(HS256): signature under the
\* given secret, then exp with leeway.
jwt_decode_ok(token, secret, t) ==
  /\ token # Malformed
  /\ token.key = secret
  /\ ~(token.exp < t - Leeway)

\* JwtKind::demake
demake_ok(kind, token, t) == jwt_decode_ok(token, secrets[kind], t)

\* JwtKind::demake: the Claims_ it returns, Malformed for Err; exp and iat
\* are DateTimes
demake(kind, token, t) ==
  IF demake_ok(kind, token, t)
  THEN [uid |-> token.uid, jti |-> token.jti, sub |-> token.sub,
        iat |-> jwt_numeric_date_deserialize(token.iat),
        exp |-> jwt_numeric_date_deserialize(token.exp)]
  ELSE Malformed

\* JwtKind::demake_independent: no signature check, no exp check
demake_independent_ok(token) == token # Malformed

\* surreal.select(("jwt", id))
select_jwt(id) == IF id \in 1..Len(ledger) THEN ledger[id] ELSE NoRec

\* is_active, from the answer of its select on
is_active(token, t) ==
  LET jwt_db == select_jwt(token.jti)
      checked == IF jwt_db = NoRec THEN NoRec ELSE check(jwt_db, t)
  IN  checked # NoRec /\ ~expired(checked, t)

\* ------------------------------------------------------------------ inputs
\* Token strings a client can present: the ones the server has issued, the
\* same claims signed with a key of the client's own, a well-formed token
\* naming a record that does not exist, and garbage.
IssuedTokens ==
  { encode(ledger[i].kind, ledger[i], ledger[i].issued_at) : i \in 1..Len(ledger) }

ForgedTokens ==
  { [t EXCEPT !.key = ForeignKey] : t \in IssuedTokens }
  \cup { [uid |-> "u1", jti |-> Len(ledger) + 1, sub |-> k,
          iat |-> now, exp |-> now + expiry(k), key |-> ForeignKey] : k \in Kinds }

PresentableTokens == IssuedTokens \cup ForgedTokens \cup {Malformed}

\* Shapes of the Authorization header of a request
Headers == {"absent", "multiple", "other_scheme", "bearer_only", "bearer"}

\* ---------------------------------------------------------------- requests
\* op, pc: the call and the round trip it waits for.  hdr, token, cred: its
\* input.  jwt, uid, iat, access, ext: locals of the handler (ext is the
\* claims the middleware attached, or the claims local of the connection
\* init).  status, tokens, probe, state_token, ran: what it answered, the
\* State.token it built and whether the downstream handler ran.
\* History of the call: seen_active and checked_at, the verdict of is_active
\* and its instant; store_failed; replay, the call began after a refresh of
\* the same token had answered 200; fresh, the call began with an issued
\* refresh token whose record was usable, and no other refresh of that token
\* has overlapped it; known, a user with the email of the register call
\* existed when it began; reads, the selects on table jwt the call has made.
\* tag, reals, real: the tag name of a register call and the locals of
\* make_tag.
Idle ==
  [op |-> None, pc |-> "idle", hdr |-> None, token |-> NoRec, cred |-> NoRec,
   jwt |-> NoRec, uid |-> None, iat |-> 0, access |-> NoRec, ext |-> NoRec,
   status |-> None, tokens |-> NoRec, probe |-> None, state_token |-> NoRec,
   ran |-> FALSE,
   seen_active |-> FALSE, checked_at |-> 0, store_failed |-> FALSE,
   replay |-> FALSE, fresh |-> FALSE, known |-> FALSE, reads |-> 0,
   tag |-> None, reals |-> {}, real |-> 0]

\* No task is between computing its response and sending it.  That stretch
\* has no await, so no other task runs during it.
Quiet == \A q \in Procs : proc[q].pc # "done"

Free(p) == Quiet /\ proc[p].pc = "idle"

Done(r, status) == [r EXCEPT !.pc = "done", !.status = status]

\* Rows the calls that are inside make_jwts will still create.
Pending ==
  LET n(p) == IF proc[p].pc = "make_access" THEN 2
              ELSE IF proc[p].pc = "refresh_update" THEN 2
              ELSE IF proc[p].pc \in {"make_tag_query", "make_tag_loop", "register_create"} THEN 2
              ELSE IF proc[p].pc = "make_refresh" THEN 1
              ELSE 0
  IN  n(1) + n(2)

\* The store has room for one more pair.
Room == Len(ledger) + Pending + 2 <= limits.records

\* Rows of user the register calls past their existence check will still create.
PendingUsers ==
  Cardinality({ p \in Procs :
    proc[p].pc \in {"make_tag_query", "make_tag_loop", "register_create"} })

\* The user table has room for one more row.
UserRoom == Cardinality(users) + PendingUsers + 1 <= MaxUsers

InitWith(l) ==
  /\ secrets \in { [k \in Kinds |-> IF k = Access THEN "ka" ELSE s] : s \in Secrets }
  /\ now = 0
  /\ ticks = 0
  /\ users = InitialUsers
  /\ ledger = << >>
  /\ proc = [p \in Procs |-> Idle]
  /\ consumed = << >>
  /\ limits = l

\* Spec: every endpoint but /auth/register, one request after the other on
\* task 1.
Init == InitWith([records |-> MaxRecords, ticks |-> MaxTicks, readers |-> {1}, writers |-> {1},
                 emails |-> Emails])

\* SpecRace: the endpoints that write the store, on two concurrent tasks.
InitRace == InitWith([records |-> RaceRecords, ticks |-> 0, readers |-> {}, writers |-> Procs,
                     emails |-> RaceEmails])

\* SpecWriters: the same with the clock running.
InitWriters == InitWith([records |-> MaxRecords, ticks |-> MaxTicks, readers |-> {}, writers |-> Procs,
                        emails |-> RaceEmails])

\* SpecRotate: the endpoints that write the store, one request after the
\* other, with the clock running and room for a refresh after a refresh.
InitRotate == InitWith([records |-> RaceRecords, ticks |-> MaxTicks, readers |-> {}, writers |-> {1},
                       emails |-> RaceEmails])

\* SpecConfig: the process from its start, with each of the two variables
\* set or not set, and POST /auth/login.
InitConfig ==
  /\ secrets \in [Kinds -> Secrets \cup {Absent}]
  /\ now = 0
  /\ ticks = 0
  /\ users = InitialUsers
  /\ ledger = << >>
  /\ proc = [p \in Procs |-> [Idle EXCEPT !.pc = "boot"]]
  /\ consumed = << >>
  /\ limits = [records |-> MaxRecords, ticks |-> 0, readers |-> {}, writers |-> Procs,
               emails |-> RaceEmails]

\* run: make_tide_authware builds the middleware of the routes with
\* JwtKind::Access.key_dec(), which reads ACCESS: its unwrap panics when the
\* variable is not set.  REFRESH is not read.  Then tide listens.
Run ==
  /\ \A p \in Procs : proc[p].pc = "boot"
  /\ proc' = [p \in Procs |->
       IF secrets[Access] = Absent THEN [Idle EXCEPT !.pc = "crashed"] ELSE Idle]
  /\ UNCHANGED <<secrets, now, ticks, users, ledger, consumed, limits>>

\* SpecRegister: POST /auth/register on two concurrent tasks.
InitRegister == InitWith([records |-> MaxRecords, ticks |-> 0, readers |-> {}, writers |-> {},
                         registrars |-> Procs, emails |-> RegEmails])

\* SpecTag: POST /auth/register, one request after the other.
InitTag == InitWith([records |-> MaxRecords, ticks |-> 0, readers |-> {}, writers |-> {},
                    registrars |-> {1}, emails |-> RegEmails])

Tick ==
  /\ Quiet
  /\ ticks < limits.ticks
  /\ \E d \in TickSteps : now' = now + d
  /\ ticks' = ticks + 1
  /\ UNCHANGED <<secrets, users, ledger, proc, consumed, limits>>

\* ------------------------------------------------------------------- login
\* http_login / login up to the query
StartLogin(p) ==
  /\ Free(p)
  /\ p \in limits.writers
  /\ \E e \in limits.emails, pw \in Passwords :
       proc' = [proc EXCEPT ![p] =
                  [Idle EXCEPT !.op = "login", !.pc = "login_query",
                               !.cred = [email |-> e, password |-> pw]]]
  /\ UNCHANGED <<secrets, now, ticks, users, ledger, consumed, limits>>

\* login with an Err where no row is found
login_verify_notfound(rows, password) ==
  IF rows = {} THEN "error"
  ELSE IF Cardinality(rows) > 1 THEN "error"
  ELSE LET u == CHOOSE x \in rows : TRUE
       IN  IF bcrypt_verify(password, u.password_hash) THEN u.id ELSE None

\* login without bcrypt::verify
login_verify_any(rows, password) ==
  IF rows = {} THEN None
  ELSE IF Cardinality(rows) > 1 THEN "error"
  ELSE (CHOOSE x \in rows : TRUE).id

\* login, from the answer of the query to the call of make_jwts: the id of
\* the user to issue tokens for, None for Ok(None), "error" for Err
login_verify(rows, password) ==
  IF rows = {} THEN None
  ELSE IF Cardinality(rows) > 1 THEN "error"
  ELSE LET u == CHOOSE x \in rows : TRUE
       IN  IF bcrypt_verify(password, u.password_hash) THEN u.id ELSE None

\* login: the answer of "select password_hash, id from user where email == ..",
\* bcrypt::verify, and the start of make_jwts; http_login maps Ok(None) to 400
LoginQuery(p) ==
  /\ Quiet
  /\ proc[p].pc = "login_query"
  /\ LET r == proc[p]
         rows == { u \in users : u.email = r.cred.email }
         uid == login_verify(rows, r.cred.password)
     IN  /\ uid \in {None, "error"} \/ Room
         /\ proc' = [proc EXCEPT ![p] =
              IF uid = None THEN Done(r, "BadRequest")
              ELSE IF uid = "error" THEN Done(r, "InternalServerError")
              ELSE [r EXCEPT !.pc = "make_access", !.uid = uid, !.iat = now]]
  /\ UNCHANGED <<secrets, now, ticks, users, ledger, consumed, limits>>

\* --------------------------------------------------------------- make_jwts
\* The row JwtKind::make creates: the store assigns the id.
new_jwt(kind, uid, iat) ==
  [id |-> Len(ledger) + 1, kind |-> kind, uid |-> uid, issued_at |-> iat, active |-> TRUE]

\* make_jwts, first half: JwtKind::Access.make; iat of the second make
MakeAccess(p) ==
  /\ Quiet
  /\ proc[p].pc = "make_access"
  /\ LET r == proc[p]
         jw == new_jwt(Access, r.uid, r.iat)
     IN  /\ ledger' = Append(ledger, jw)
         /\ proc' = [proc EXCEPT ![p] =
                       [r EXCEPT !.pc = "make_refresh", !.access = encode(Access, jw, r.iat),
                                 !.iat = now]]
  /\ UNCHANGED <<secrets, now, ticks, users, consumed, limits>>

\* make_jwts, second half: JwtKind::Refresh.make, and the 200 response of
\* http_login / http_register / http_refresh.  key_enc reads REFRESH after
\* the create: its unwrap panics when the variable is not set.
MakeRefresh(p) ==
  /\ Quiet
  /\ proc[p].pc = "make_refresh"
  /\ LET r == proc[p]
         jw == new_jwt(Refresh, r.uid, r.iat)
     IN  /\ ledger' = Append(ledger, jw)
         /\ proc' = [proc EXCEPT ![p] =
                       IF secrets[Refresh] = Absent
                       THEN Done(r, "Panic")
                       ELSE [r EXCEPT !.pc = "done", !.status = "Ok",
                                      !.tokens = [access |-> r.access,
                                                  refresh |-> encode(Refresh, jw, r.iat)]]]
         /\ consumed' = IF r.op = "refresh" /\ secrets[Refresh] # Absent
                        THEN Append(consumed, r.token) ELSE consumed
  /\ UNCHANGED <<secrets, now, ticks, users, limits>>

\* ---------------------------------------------------------------- register
\* http_register / register up to the existence query: bcrypt::hash
StartRegister(p) ==
  /\ Free(p)
  /\ p \in limits.registrars
  /\ \E e \in limits.emails, pw \in RegPasswords, tg \in TagNames :
       proc' = [proc EXCEPT ![p] =
                  [Idle EXCEPT !.op = "register", !.pc = "register_select",
                               !.cred = [email |-> e, password |-> pw], !.tag = tg,
                               !.known = \E u \in users : u.email = e]]
  /\ UNCHANGED <<secrets, now, ticks, users, ledger, consumed, limits>>

\* register with the existence test left out
register_exists_never(rows) == FALSE

\* register: the test on the answer of "SELECT * FROM user WHERE email == .."
register_exists(rows) == rows # {}

\* register: the answer of the existence query; http_register maps Ok(None)
\* to 400.  Otherwise make_tag sends its query.
RegisterSelect(p) ==
  /\ Quiet
  /\ proc[p].pc = "register_select"
  /\ LET r == proc[p]
         rows == { u \in users : u.email = r.cred.email }
     IN  /\ register_exists(rows) \/ (Room /\ UserRoom)
         /\ proc' = [proc EXCEPT ![p] =
              IF register_exists(rows) THEN Done(r, "BadRequest")
              ELSE [r EXCEPT !.pc = "make_tag_query"]]
  /\ UNCHANGED <<secrets, now, ticks, users, ledger, consumed, limits>>

\* make_tag: the answer of "select tag[1] from user where tag[0] == ..",
\* and real = [0u8; 4]
MakeTagQuery(p) ==
  /\ Quiet
  /\ proc[p].pc = "make_tag_query"
  /\ proc' = [proc EXCEPT ![p] =
       [proc[p] EXCEPT !.pc = "make_tag_loop", !.real = 0,
                       !.reals = { u.tag[2] : u \in { v \in users : v.tag[1] = proc[p].tag } }]]
  /\ UNCHANGED <<secrets, now, ticks, users, ledger, consumed, limits>>

\* make_tag, one turn of the loop: rng.fill draws a value that reals
\* contains, continue
MakeTagRetry(p) ==
  /\ Quiet
  /\ proc[p].pc = "make_tag_loop"
  /\ \E d \in Discriminators :
       /\ d \in proc[p].reals
       /\ proc' = [proc EXCEPT ![p] = [proc[p] EXCEPT !.real = d]]
  /\ UNCHANGED <<secrets, now, ticks, users, ledger, consumed, limits>>

\* make_tag, last turn of the loop: rng.fill draws a value that reals does
\* not contain, return Ok(real); register sends its CREATE
MakeTagReturn(p) ==
  /\ Quiet
  /\ proc[p].pc = "make_tag_loop"
  /\ \E d \in Discriminators :
       /\ d \notin proc[p].reals
       /\ proc' = [proc EXCEPT ![p] = [proc[p] EXCEPT !.real = d, !.pc = "register_create"]]
  /\ UNCHANGED <<secrets, now, ticks, users, ledger, consumed, limits>>

\* The row CREATE user SET .. creates: the store assigns the id.
new_user(cred, tag, real) ==
  [id |-> UserIdPool[Cardinality(users) + 1], email |-> cred.email,
   password_hash |-> bcrypt_hash(cred.password), tag |-> <<tag, real>>]

\* register: the answer of the CREATE, and the start of make_jwts
RegisterCreate(p) ==
  /\ Quiet
  /\ proc[p].pc = "register_create"
  /\ LET r == proc[p]
         user == new_user(r.cred, r.tag, r.real)
     IN  /\ users' = users \cup {user}
         /\ proc' = [proc EXCEPT ![p] = [r EXCEPT !.pc = "make_access", !.uid = user.id,
                                                  !.iat = now]]
  /\ UNCHANGED <<secrets, now, ticks, ledger, consumed, limits>>

\* ----------------------------------------------------------------- refresh
WasConsumed(t) == \E i \in 1..Len(consumed) : consumed[i] = t

InFlightRefresh(q, t) ==
  proc[q].op = "refresh" /\ proc[q].pc # "done" /\ proc[q].token = t

\* http_refresh / refresh up to the select: JwtKind::Refresh.demake, whose
\* error the ? turns into a 500
StartRefresh(p) ==
  /\ Free(p)
  /\ p \in limits.writers
  /\ \E t \in PresentableTokens :
       LET r == [Idle EXCEPT !.op = "refresh", !.token = t,
                             !.replay = WasConsumed(t),
                             !.fresh = /\ t \in IssuedTokens
                                       /\ t.sub = Refresh
                                       /\ is_active(t, now)
                                       /\ \A q \in Procs \ {p} : ~InFlightRefresh(q, t)]
       IN  proc' = [q \in Procs |->
             IF q = p
             THEN IF demake_ok(Refresh, t, now)
                  THEN [r EXCEPT !.pc = "refresh_select"]
                  ELSE Done(r, "InternalServerError")
             ELSE IF InFlightRefresh(q, t) THEN [proc[q] EXCEPT !.fresh = FALSE]
             ELSE proc[q]]
  /\ UNCHANGED <<secrets, now, ticks, users, ledger, consumed, limits>>

\* refresh_check with the row left active
refresh_check_keeps_active(jwt, t) ==
  IF jwt = NoRec THEN Malformed
  ELSE IF check(jwt, t) # NoRec /\ jwt.kind = Refresh THEN jwt
  ELSE NoRec

\* refresh_check without Jwt::check: the active flag and the age of the row
\* are not looked at
refresh_check_unchecked(jwt, t) ==
  IF jwt = NoRec THEN Malformed
  ELSE IF jwt.kind = Refresh THEN [jwt EXCEPT !.active = FALSE]
  ELSE NoRec

\* refresh, from the answer of the select to the update: the row to write
\* back, NoRec for Ok(None), Malformed for Err ("token no exist")
refresh_check(jwt, t) ==
  IF jwt = NoRec THEN Malformed
  ELSE IF check(jwt, t) # NoRec /\ jwt.kind = Refresh
       THEN [jwt EXCEPT !.active = FALSE]
       ELSE NoRec

\* refresh: the answer of the select, Jwt::check and the kind test;
\* http_refresh maps Ok(None) to 400
RefreshSelect(p) ==
  /\ Quiet
  /\ proc[p].pc = "refresh_select"
  /\ LET r == [proc[p] EXCEPT !.reads = @ + 1]
         jwt == refresh_check(select_jwt(r.token.jti), now)
     IN  /\ jwt \in {NoRec, Malformed} \/ Room
         /\ proc' = [proc EXCEPT ![p] =
              IF jwt = Malformed THEN Done(r, "InternalServerError")
              ELSE IF jwt = NoRec THEN Done(r, "BadRequest")
              ELSE [r EXCEPT !.pc = "refresh_update", !.jwt = jwt, !.uid = jwt.uid]]
  /\ UNCHANGED <<secrets, now, ticks, users, ledger, consumed, limits>>

\* refresh: update(id).content(jwt) writes the whole row that was read, with
\* active = false; then make_jwts starts
RefreshUpdate(p) ==
  /\ Quiet
  /\ proc[p].pc = "refresh_update"
  /\ LET r == proc[p]
     IN  /\ ledger' = [ledger EXCEPT ![r.jwt.id] = r.jwt]
         /\ proc' = [proc EXCEPT ![p] = [r EXCEPT !.pc = "make_access", !.iat = now]]
  /\ UNCHANGED <<secrets, now, ticks, users, consumed, limits>>

\* ---------------------------------------------------------- GET /auth/isactive
\* http_isactive / is_active up to the select: an Err of demake_independent
\* is answered 400
StartIsActive(p) ==
  /\ Free(p)
  /\ p \in limits.readers
  /\ \E t \in PresentableTokens :
       LET r == [Idle EXCEPT !.op = "isactive", !.token = t]
       IN  proc' = [proc EXCEPT ![p] =
             IF demake_independent_ok(t)
             THEN [r EXCEPT !.pc = "isactive_select"]
             ELSE Done(r, "BadRequest")]
  /\ UNCHANGED <<secrets, now, ticks, users, ledger, consumed, limits>>

\* http_isactive: the answer of the select, and the JSON boolean body
IsActiveSelect(p) ==
  /\ Quiet
  /\ proc[p].pc = "isactive_select"
  /\ LET r == [proc[p] EXCEPT !.reads = @ + 1]
         a == is_active(r.token, now)
     IN  proc' = [proc EXCEPT ![p] =
           [r EXCEPT !.pc = "done", !.status = "Ok", !.seen_active = a, !.checked_at = now,
                     !.probe = IF a THEN "true" ELSE "false"]]
  /\ UNCHANGED <<secrets, now, ticks, users, ledger, consumed, limits>>

\* ------------------------------------------------ middleware and handle_gql
\* handle_gql without the test of the kind
gql_wants_token_any(claims) == claims # NoRec

\* handle_gql, from the claims the middleware attached to make_jwt_token:
\* TRUE when a State.token is to be built
gql_wants_token(claims) == claims # NoRec /\ claims.sub # Refresh

\* handle with several Authorization values let through as if there were none
handle_header_merged(h) ==
  IF h \in {"absent", "other_scheme", "multiple"} THEN "pass"
  ELSE IF h = "bearer_only" THEN "panic"
  ELSE "token"

\* handle with a value of another scheme turned down
handle_header_strict(h) ==
  IF h = "absent" THEN "pass"
  ELSE IF h \in {"multiple", "other_scheme"} THEN "reject"
  ELSE IF h = "bearer_only" THEN "panic"
  ELSE "token"

\* JwtAuthenticationDecoder::handle, from the Authorization header to the
\* call of is_active: next.run without claims, the 401 response, the panic
\* of the slice value["Bearer ".len()..] on the value "Bearer", or the token
handle_header(h) ==
  IF h \in {"absent", "other_scheme"} THEN "pass"
  ELSE IF h = "multiple" THEN "reject"
  ELSE IF h = "bearer_only" THEN "panic"
  ELSE "token"

\* JwtAuthenticationDecoder::handle up to the select of is_active, and for
\* a request it lets pass without a token handle_gql with no claims
StartGql(p) ==
  /\ Free(p)
  /\ p \in limits.readers
  /\ \E h \in Headers, t \in PresentableTokens :
       /\ h # "bearer" => t = Malformed
       /\ LET r == [Idle EXCEPT !.op = "gql", !.hdr = h,
                                !.token = IF h = "bearer" THEN t ELSE NoRec]
          IN  proc' = [proc EXCEPT ![p] =
                IF handle_header(h) = "pass"
                THEN [Done(r, "Ok") EXCEPT !.ran = TRUE]
                ELSE IF handle_header(h) = "reject" THEN Done(r, "Unauthorized")
                ELSE IF handle_header(h) = "panic" THEN Done(r, "Panic")
                ELSE IF demake_independent_ok(t)
                     THEN [r EXCEPT !.pc = "mw_select"]
                     ELSE Done(r, "InternalServerError")]
  /\ UNCHANGED <<secrets, now, ticks, users, ledger, consumed, limits>>

\* handle without the decode: the claims of the unverified decode are attached
mw_claims_unverified(token, active, t) == IF active THEN token ELSE NoRec

\* JwtAuthenticationDecoder::handle, from the answer of is_active: the
\* claims it attaches with set_ext, NoRec when it rejects
mw_claims(token, active, t) ==
  IF active /\ jwt_decode_ok(token, secrets[Access], t) THEN token ELSE NoRec

\* handle: the answer of is_active's select, decode and set_ext; then
\* handle_gql up to the select of make_jwt_token
MwSelect(p) ==
  /\ Quiet
  /\ proc[p].pc = "mw_select"
  /\ LET r == [proc[p] EXCEPT !.seen_active = is_active(proc[p].token, now),
                              !.checked_at = now, !.reads = @ + 1]
         claims == mw_claims(r.token, r.seen_active, now)
     IN  proc' = [proc EXCEPT ![p] =
           IF claims = NoRec THEN Done(r, "Unauthorized")
           ELSE IF gql_wants_token(claims)
                THEN [r EXCEPT !.pc = "gql_select", !.ext = claims]
                ELSE [Done(r, "Ok") EXCEPT !.ext = claims, !.ran = TRUE]]
  /\ UNCHANGED <<secrets, now, ticks, users, ledger, consumed, limits>>

\* make_jwt_token, from the answer of its select: the JwtToken, NoRec for
\* the Err of check, Malformed for the panic of unwrap
make_jwt_token(claims, db, t) ==
  IF db = NoRec THEN Malformed
  ELSE IF check(db, t) = NoRec THEN NoRec
  ELSE [claims |-> claims, db |-> db]

\* handle_gql: the answer of make_jwt_token's select, State { token } and
\* the execution of the request
GqlSelect(p) ==
  /\ Quiet
  /\ proc[p].pc = "gql_select"
  /\ LET r == [proc[p] EXCEPT !.reads = @ + 1]
         tok == make_jwt_token(r.ext, select_jwt(r.ext.jti), now)
     IN  proc' = [proc EXCEPT ![p] =
           IF tok = Malformed THEN Done(r, "Panic")
           ELSE IF tok = NoRec THEN Done(r, "Unauthorized")
           ELSE [Done(r, "Ok") EXCEPT !.state_token = tok, !.ran = TRUE]]
  /\ UNCHANGED <<secrets, now, ticks, users, ledger, consumed, limits>>

\* ------------------------------------ gql_subscrimb: on_connection_init
\* Shapes of the connection init payload: not a JSON object, an object
\* without a string accessToken, an object with one.
Payloads == {"absent", "no_field", "bearer"}

\* The closure up to the select of is_active.  hdr is the shape of the init
\* payload: from_value::<I> fails on an object without accessToken.
StartSub(p) ==
  /\ Free(p)
  /\ p \in limits.readers
  /\ \E h \in Payloads, t \in PresentableTokens :
       /\ h # "bearer" => t = Malformed
       /\ LET r == [Idle EXCEPT !.op = "sub", !.hdr = h,
                                !.token = IF h = "bearer" THEN t ELSE NoRec]
          IN  proc' = [proc EXCEPT ![p] =
                IF h = "absent" THEN [Done(r, "Ok") EXCEPT !.ran = TRUE]
                ELSE IF h = "no_field" THEN Done(r, "ConnectionError")
                ELSE IF demake_independent_ok(t)
                     THEN [r EXCEPT !.pc = "sub_select"]
                     ELSE Done(r, "ConnectionError")]
  /\ UNCHANGED <<secrets, now, ticks, users, ledger, consumed, limits>>

\* The closure, from the answer of is_active: the claims local
sub_claims(token, active, t) ==
  IF active /\ jwt_decode_ok(token, secrets[Access], t) THEN token ELSE NoRec

\* The closure without the test of the kind
sub_wants_token_any(claims) == claims # NoRec

\* The closure, from the claims to make_jwt_token
sub_wants_token(claims) == claims # NoRec /\ claims.sub # Refresh

\* The closure: the answer of is_active's select, decode, the kind test
SubSelect(p) ==
  /\ Quiet
  /\ proc[p].pc = "sub_select"
  /\ LET r == [proc[p] EXCEPT !.seen_active = is_active(proc[p].token, now),
                              !.checked_at = now, !.reads = @ + 1]
         claims == sub_claims(r.token, r.seen_active, now)
     IN  proc' = [proc EXCEPT ![p] =
           IF claims = NoRec THEN Done(r, "ConnectionError")
           ELSE IF sub_wants_token(claims)
                THEN [r EXCEPT !.pc = "sub_token", !.ext = claims]
                ELSE [Done(r, "Ok") EXCEPT !.ext = claims, !.ran = TRUE]]
  /\ UNCHANGED <<secrets, now, ticks, users, ledger, consumed, limits>>

\* The closure: the answer of make_jwt_token's select, and the Data holding
\* State { token }
SubToken(p) ==
  /\ Quiet
  /\ proc[p].pc = "sub_token"
  /\ LET r == [proc[p] EXCEPT !.reads = @ + 1]
         tok == make_jwt_token(r.ext, select_jwt(r.ext.jti), now)
     IN  proc' = [proc EXCEPT ![p] =
           IF tok = Malformed THEN Done(r, "Panic")
           ELSE IF tok = NoRec THEN Done(r, "ConnectionError")
           ELSE [Done(r, "Ok") EXCEPT !.state_token = tok, !.ran = TRUE]]
  /\ UNCHANGED <<secrets, now, ticks, users, ledger, consumed, limits>>

\* ------------------------------------------------- store errors, cancellation
\* (the loop of make_tag has no await)
AwaitingStore(p) == proc[p].pc \notin {"idle", "done", "make_tag_loop", "boot", "crashed"}

\* The status a store error ends a call with: the ? of login, refresh and
\* the middleware gives 500, http_isactive answers 400 for any Err of
\* is_active, the connection init fails the connection.
store_error_status(op) ==
  IF op = "isactive" THEN "BadRequest"
  ELSE IF op = "sub" THEN "ConnectionError"
  ELSE "InternalServerError"

\* The round trip a call waits for answers with an error.
StoreFail(p) ==
  /\ Quiet
  /\ AwaitingStore(p)
  /\ proc' = [proc EXCEPT ![p] =
                [Done(proc[p], store_error_status(proc[p].op)) EXCEPT !.store_failed = TRUE]]
  /\ UNCHANGED <<secrets, now, ticks, users, ledger, consumed, limits>>

\* The client goes away and the handler's future is dropped at its await.
Cancel(p) ==
  /\ Quiet
  /\ AwaitingStore(p)
  /\ proc' = [proc EXCEPT ![p] = Idle]
  /\ UNCHANGED <<secrets, now, ticks, users, ledger, consumed, limits>>

\* The response is sent and the task takes the next request.
Respond(p) ==
  /\ proc[p].pc = "done"
  /\ proc' = [proc EXCEPT ![p] = Idle]
  /\ UNCHANGED <<secrets, now, ticks, users, ledger, consumed, limits>>

\* ---------------------------------------------------------- specifications
Next ==
  \/ Tick
  \/ \E p \in Procs : StartLogin(p)
  \/ \E p \in Procs : LoginQuery(p)
  \/ \E p \in Procs : MakeAccess(p)
  \/ \E p \in Procs : MakeRefresh(p)
  \/ \E p \in Procs : StartRefresh(p)
  \/ \E p \in Procs : RefreshSelect(p)
  \/ \E p \in Procs : RefreshUpdate(p)
  \/ \E p \in Procs : StartIsActive(p)
  \/ \E p \in Procs : IsActiveSelect(p)
  \/ \E p \in Procs : StartGql(p)
  \/ \E p \in Procs : MwSelect(p)
  \/ \E p \in Procs : GqlSelect(p)
  \/ \E p \in Procs : StartSub(p)
  \/ \E p \in Procs : SubSelect(p)
  \/ \E p \in Procs : SubToken(p)
  \/ \E p \in Procs : StoreFail(p)
  \/ \E p \in Procs : Cancel(p)
  \/ \E p \in Procs : Respond(p)

Spec == Init /\ [][Next]_vars

NextRace ==
  \/ \E p \in Procs : StartLogin(p)
  \/ \E p \in Procs : LoginQuery(p)
  \/ \E p \in Procs : MakeAccess(p)
  \/ \E p \in Procs : MakeRefresh(p)
  \/ \E p \in Procs : StartRefresh(p)
  \/ \E p \in Procs : RefreshSelect(p)
  \/ \E p \in Procs : RefreshUpdate(p)
  \/ \E p \in Procs : StoreFail(p)
  \/ \E p \in Procs : Cancel(p)
  \/ \E p \in Procs : Respond(p)

SpecRace == InitRace /\ [][NextRace]_vars

NextWriters == Tick \/ NextRace

SpecWriters == InitWriters /\ [][NextWriters]_vars

SpecRotate == InitRotate /\ [][NextWriters]_vars

NextRegister ==
  \/ \E p \in Procs : StartRegister(p)
  \/ \E p \in Procs : RegisterSelect(p)
  \/ \E p \in Procs : MakeTagQuery(p)
  \/ \E p \in Procs : MakeTagRetry(p)
  \/ \E p \in Procs : MakeTagReturn(p)
  \/ \E p \in Procs : RegisterCreate(p)
  \/ \E p \in Procs : MakeAccess(p)
  \/ \E p \in Procs : MakeRefresh(p)
  \/ \E p \in Procs : StoreFail(p)
  \/ \E p \in Procs : Cancel(p)
  \/ \E p \in Procs : Respond(p)

SpecRegister == InitRegister /\ [][NextRegister]_vars

NextConfig ==
  \/ Run
  \/ \E p \in Procs : StartLogin(p)
  \/ \E p \in Procs : LoginQuery(p)
  \/ \E p \in Procs : MakeAccess(p)
  \/ \E p \in Procs : MakeRefresh(p)
  \/ \E p \in Procs : StoreFail(p)
  \/ \E p \in Procs : Cancel(p)
  \/ \E p \in Procs : Respond(p)

SpecConfig == InitConfig /\ [][NextConfig]_vars

\* The task in the loop of make_tag keeps running, and a generator that can
\* draw a free value does draw one.
FairTag ==
  \A p \in Procs : /\ WF_vars(MakeTagRetry(p) \/ MakeTagReturn(p))
                   /\ SF_vars(MakeTagReturn(p))

SpecTag == InitTag /\ [][NextRegister]_vars /\ FairTag

\* ================================================================== claims

\* --- C1 ---------------------------------------------------------------
\* C1: of two concurrent refresh(R0) calls for one refresh token at most one
\* returns a token pair: no token is answered 200 by refresh twice.
C1_AtMostOneRefreshSucceeds ==
  \A i, j \in 1..Len(consumed) : consumed[i] = consumed[j] => i = j

\* --- C2 ---------------------------------------------------------------
\* The seconds a record of a kind stays usable (spec, data model).
Lifetime(kind) == IF kind = Access THEN 600 ELSE 3600

\* C2: a refresh(R0) that begins after a refresh(R0) has answered 200 fails
\* and never reaches the update or make_jwts; a refresh that answers 200
\* returns two tokens with the uid of R0's owner and a refresh token whose
\* jti is not R0's; and a refresh of an issued, usable refresh token that no
\* other refresh overlaps, that meets no store error and ends before the
\* record expires, answers 200.
C2_RefreshRotation ==
  \A p \in Procs :
    LET r == proc[p] IN
    r.op = "refresh" =>
      /\ r.replay =>
           /\ r.pc \in {"refresh_select", "done"}
           /\ r.status \in {None, "BadRequest", "InternalServerError"}
           /\ r.tokens = NoRec
      /\ (r.pc = "done" /\ r.status = "Ok") =>
           /\ r.tokens.access.uid = ledger[r.token.jti].uid
           /\ r.tokens.refresh.uid = ledger[r.token.jti].uid
           /\ r.tokens.access.uid = r.token.uid
           /\ r.tokens.refresh.jti # r.token.jti
           /\ r.tokens.refresh.sub = Refresh
           /\ r.tokens.access.sub = Access
      /\ (/\ r.pc = "done" /\ r.fresh /\ ~r.store_failed
          /\ now <= r.token.iat + Lifetime(Refresh)) => r.status = "Ok"

\* A replayed refresh token has been turned down with 400.
C2_Witness ==
  \E p \in Procs :
    /\ proc[p].op = "refresh" /\ proc[p].replay
    /\ proc[p].pc = "done" /\ proc[p].status = "BadRequest"
    /\ proc[p].token.sub = Refresh

\* --- C3 ---------------------------------------------------------------
\* A record with this id exists, is active and is not older than the
\* lifetime of its kind at instant t (spec, data model).
RecordUsable(id, t) ==
  /\ id \in 1..Len(ledger)
  /\ ledger[id].active
  /\ t <= ledger[id].issued_at + Lifetime(ledger[id].kind)

\* C3: for a token that parses, the probe answers 200 with true exactly when
\* a record with the token's jti exists, is active and now <= issued_at +
\* lifetime of its kind; with no such record it answers false, not an error.
C3_IsActiveIff ==
  \A p \in Procs :
    LET r == proc[p] IN
    (r.op = "isactive" /\ r.pc = "done" /\ ~r.store_failed /\ r.token # Malformed) =>
      /\ r.status = "Ok"
      /\ r.probe \in {"true", "false"}
      /\ r.probe = "true" <=> RecordUsable(r.token.jti, now)

\* The probe has answered false for an active record that has outlived its
\* lifetime.
C3_Witness ==
  \E p \in Procs :
    /\ proc[p].op = "isactive" /\ proc[p].pc = "done" /\ proc[p].probe = "false"
    /\ proc[p].token.jti \in 1..Len(ledger)
    /\ ledger[proc[p].token.jti].active
    /\ now > ledger[proc[p].token.jti].issued_at + Lifetime(ledger[proc[p].token.jti].kind)

\* --- C4 ---------------------------------------------------------------
ActiveNow(t) == is_active(t, now)

\* C4: no step removes a record or sets its active flag from false to true,
\* and once is_active is false for an issued token it is false after every
\* step (the clock does not go back).
C4_OneWay ==
  [][ /\ Len(ledger') >= Len(ledger)
      /\ \A i \in 1..Len(ledger) : ~ledger[i].active => ~ledger'[i].active
      /\ \A t \in IssuedTokens : ~ActiveNow(t) => ~ActiveNow(t)' ]_vars

\* A record has been deactivated within its lifetime, and a later pair exists.
C4_Witness ==
  \E i \in 1..Len(ledger) :
    /\ ~ledger[i].active
    /\ now <= ledger[i].issued_at + Lifetime(ledger[i].kind)
    /\ Len(ledger) > i

\* --- C5 ---------------------------------------------------------------
\* C5: claims are attached (by the middleware, or held by the connection
\* init) only if they are the presented token's, is_active answered true --
\* the record was active and within its lifetime at the check -- and the
\* token is signed with the Access secret and within exp plus leeway at the
\* check; a State.token is built from attached claims only.
C5_ClaimsOnlyIfActiveAndVerified ==
  \A p \in Procs :
    LET r == proc[p] IN
    r.op \in {"gql", "sub"} =>
      /\ r.ext # NoRec =>
           /\ r.ext = r.token
           /\ r.seen_active
           /\ RecordUsable(r.token.jti, r.checked_at)
           /\ r.token.key = secrets[Access]
           /\ r.checked_at <= r.token.exp + Leeway
      /\ r.state_token # NoRec => (r.ext # NoRec /\ r.state_token.claims = r.ext)

\* A request has been given an identity from attached claims.
C5_Witness ==
  \E p \in Procs :
    /\ proc[p].op = "gql" /\ proc[p].pc = "done" /\ proc[p].status = "Ok"
    /\ proc[p].ext # NoRec /\ proc[p].state_token # NoRec

\* --- C6 ---------------------------------------------------------------
\* C6: a request whose Bearer token is of kind Refresh never gets a
\* State.token and never reaches make_jwt_token.
C6_RefreshTokenNeverIdentity ==
  \A p \in Procs :
    LET r == proc[p] IN
    (r.op \in {"gql", "sub"} /\ r.hdr = "bearer" /\ r.token # Malformed
       /\ r.token.sub = Refresh) =>
      /\ r.state_token = NoRec
      /\ r.pc \notin {"gql_select", "sub_token"}

\* An issued refresh token whose record is usable has passed the middleware
\* (the two secrets are equal) and the request ran without an identity.
C6_Witness ==
  \E p \in Procs :
    /\ proc[p].op = "gql" /\ proc[p].pc = "done" /\ proc[p].status = "Ok"
    /\ proc[p].token \in IssuedTokens /\ proc[p].token.sub = Refresh
    /\ ActiveNow(proc[p].token)
    /\ proc[p].ext # NoRec /\ proc[p].ran /\ proc[p].state_token = NoRec

\* --- C7 ---------------------------------------------------------------
\* C7: a request with one Bearer value whose token is not active in the
\* ledger (a string that is no token included), or is active but fails the
\* verification, is answered Unauthorized and the handler is not run,
\* unless the store failed.
C7_InvalidBearerIsUnauthorized ==
  \A p \in Procs :
    LET r == proc[p] IN
    (/\ r.op = "gql" /\ r.hdr = "bearer" /\ r.pc = "done" /\ ~r.store_failed
     /\ \/ r.token = Malformed
        \/ ~r.seen_active
        \/ r.token.key # secrets[Access]
        \/ r.checked_at > r.token.exp + Leeway) =>
      (r.status = "Unauthorized" /\ ~r.ran)

\* --- C8 ---------------------------------------------------------------
\* The refresh token of a call can at no instant be exchanged: it is no
\* token, is not signed with the Refresh secret, names no record or names a
\* record of kind Access.
NeverRefreshable(token) ==
  \/ token = Malformed
  \/ token.key # secrets[Refresh]
  \/ token.jti \notin 1..Len(ledger)
  \/ ledger[token.jti].kind # Refresh

\* C8: unless the store failed, POST /auth/refresh answers 200 or 400 and
\* nothing else, and 400 for a token that can never be exchanged or has
\* been exchanged already.
C8_InvalidRefreshIsBadRequest ==
  \A p \in Procs :
    LET r == proc[p] IN
    (r.op = "refresh" /\ r.pc = "done" /\ ~r.store_failed) =>
      /\ r.status \in {"Ok", "BadRequest"}
      /\ (NeverRefreshable(r.token) \/ r.replay) => r.status = "BadRequest"

\* --- C9 ---------------------------------------------------------------
\* No user has this email, or the one who has it has another password.
BadCredentials(c) ==
  ~\E u \in users : u.email = c.email /\ u.password_hash = bcrypt_hash(c.password)

C11_RegisterExistingEmail ==
  \A p \in Procs :
    LET r == proc[p] IN
    (r.op = "register" /\ r.known) =>
      /\ r.pc \in {"register_select", "done"}
      /\ r.uid = None /\ r.access = NoRec /\ r.tokens = NoRec
      /\ (r.pc = "done" /\ ~r.store_failed) => r.status = "BadRequest"

\* A register call with the email of the first user has been answered 400.
C11_Witness ==
  \E p \in Procs :
    /\ proc[p].op = "register" /\ proc[p].known /\ proc[p].cred.email = "e1"
    /\ proc[p].pc = "done" /\ proc[p].status = "BadRequest"

\* --- C12 --------------------------------------------------------------
\* C12: no two rows of the user table have the same email.
C12_EmailUnique ==
  \A u, v \in users : u.email = v.email => u = v

\* --- C13 --------------------------------------------------------------
\* C13: no two rows of the user table have the same tag name and
\* discriminator (rows that also have the same email are left to C12).
C13_TagUnique ==
  \A u, v \in users : (u.tag = v.tag /\ u.email # v.email) => u = v

\* --- C14 --------------------------------------------------------------
\* The token carries exp = iat + lifetime of the kind, sub = kind, the given
\* owner, and the id of a record of that kind and owner.
TokenOfRecord(token, kind, uid) ==
  /\ token.exp = token.iat + Lifetime(kind)
  /\ token.sub = kind
  /\ token.uid = uid
  /\ token.jti \in 1..Len(ledger)
  /\ ledger[token.jti].id = token.jti
  /\ ledger[token.jti].kind = kind
  /\ ledger[token.jti].uid = uid
  /\ ledger[token.jti].issued_at = token.iat

\* C14: every token make has returned to a call carries exp = iat + lifetime
\* of its kind, sub = kind, uid = the owner of the record the same make
\* created and jti = that record's id; no two records have the same id.
C14_IssuedClaims ==
  /\ \A p \in Procs :
       LET r == proc[p] IN
       /\ r.access # NoRec => TokenOfRecord(r.access, Access, r.uid)
       /\ r.tokens # NoRec =>
            /\ TokenOfRecord(r.tokens.access, Access, r.uid)
            /\ TokenOfRecord(r.tokens.refresh, Refresh, r.uid)
            /\ r.tokens.access.jti # r.tokens.refresh.jti
  /\ \A i, j \in 1..Len(ledger) : ledger[i].id = ledger[j].id => i = j

\* A pair has been returned whose tokens were issued after the clock moved,
\* while earlier records exist.
C14_Witness ==
  \E p \in Procs :
    /\ proc[p].pc = "done" /\ proc[p].status = "Ok" /\ proc[p].tokens # NoRec
    /\ proc[p].tokens.refresh.iat > 0
    /\ proc[p].tokens.access.jti > 2

\* --- C15 --------------------------------------------------------------
\* C15: for a login answered 200, JwtKind::demake of the access token gives
\* claims with the user's id and exp - iat = 600 seconds, and demake of the
\* refresh token gives claims with exp - iat = 3600 seconds (each token
\* decoded at the instant of its issue; exp and iat are DateTimes).
C15_LoginTokensDecode ==
  \A p \in Procs :
    LET r == proc[p] IN
    (r.op = "login" /\ r.pc = "done" /\ r.status = "Ok") =>
      LET a == demake(Access, r.tokens.access, r.tokens.access.iat)
          f == demake(Refresh, r.tokens.refresh, r.tokens.refresh.iat)
      IN  /\ a # Malformed /\ f # Malformed
          /\ \E u \in users : u.email = r.cred.email /\ a.uid = u.id
          /\ a.exp - a.iat = DateTime(Lifetime(Access))
          /\ f.exp - f.iat = DateTime(Lifetime(Refresh))

\* --- C16 --------------------------------------------------------------
\* C16: while a refresh call is in make_jwts, and when it has answered 200,
\* the record of the token it consumes is inactive.
C16_DeactivatedBeforeIssue ==
  \A p \in Procs :
    LET r == proc[p] IN
    (r.op = "refresh" /\ (r.pc \in {"make_access", "make_refresh"} \/ r.status = "Ok")) =>
      ~ledger[r.token.jti].active

\* A refresh call has created the first record of the new pair.
C16_Witness ==
  \E p \in Procs :
    /\ proc[p].op = "refresh" /\ proc[p].pc = "make_refresh"
    /\ proc[p].access # NoRec /\ proc[p].access.jti > proc[p].token.jti
    /\ ~ledger[proc[p].token.jti].active

\* --- C17 --------------------------------------------------------------
\* C17: a refresh call that is cancelled or fails in make_jwts, after its
\* update, leaves the ledger as it is with the consumed record inactive; no
\* step sets a record back to active; and a refresh call whose select finds
\* an inactive record is answered 400 (or is cancelled, or the store fails).
C17_NoRollback ==
  [][ /\ \A i \in 1..Len(ledger) :
           ~ledger[i].active => (i <= Len(ledger') /\ ~ledger'[i].active)
      /\ \A p \in Procs :
           LET r == proc[p]
               q == proc'[p]
           IN  /\ (/\ r.op = "refresh" /\ r.pc \in {"make_access", "make_refresh"}
                   /\ q.pc \in {"idle", "done"} /\ q.status # "Ok") =>
                     (ledger' = ledger /\ ~ledger'[r.token.jti].active)
               /\ (/\ r.op = "refresh" /\ r.pc = "refresh_select"
                   /\ r.token.jti \in 1..Len(ledger) /\ ~ledger[r.token.jti].active
                   /\ q.pc # "refresh_select") =>
                     \/ q.pc = "idle"
                     \/ q.pc = "done" /\ (q.status = "BadRequest" \/ q.store_failed) ]_vars

\* A refresh token that no refresh call has answered 200 for, whose record
\* is inactive and within its lifetime, has been turned down with 400.
C17_Witness ==
  \E p \in Procs :
    /\ proc[p].op = "refresh" /\ proc[p].pc = "done" /\ proc[p].status = "BadRequest"
    /\ ~proc[p].replay /\ ~WasConsumed(proc[p].token)
    /\ proc[p].token \in IssuedTokens /\ proc[p].token.sub = Refresh
    /\ ~ledger[proc[p].token.jti].active
    /\ now <= ledger[proc[p].token.jti].issued_at + Lifetime(Refresh)

\* --- C18 --------------------------------------------------------------
\* C18 as stated: a request to /graphql that has had claims attached has
\* made exactly one select on the ledger.
C18_ExactlyOneRead ==
  \A p \in Procs :
    LET r == proc[p] IN
    (r.op = "gql" /\ r.pc = "done" /\ r.ext # NoRec) => r.reads = 1

\* C18, amended: no step of a request to /graphql changes the ledger; the
\* middleware makes one select (is_active), and handle_gql makes a second
\* one (make_jwt_token) unless the claims are of kind Refresh: a request
\* that has had claims attached and met no store error ends with two
\* selects for an access token and one for a refresh token.
C18_ReadsNoWrite ==
  [][ \A p \in Procs :
        LET q == proc'[p] IN
        (q.op = "gql" /\ q # proc[p]) =>
          /\ ledger' = ledger
          /\ q.reads <= 2
          /\ (q.pc = "done" /\ q.ext # NoRec /\ ~q.store_failed) =>
               q.reads = IF q.ext.sub = Refresh THEN 1 ELSE 2 ]_vars

\* A request with an access token has run with an identity after two selects.
C18_Witness ==
  \E p \in Procs :
    /\ proc[p].op = "gql" /\ proc[p].pc = "done" /\ proc[p].status = "Ok"
    /\ proc[p].ran /\ proc[p].state_token # NoRec /\ proc[p].ext.sub = Access
    /\ proc[p].reads = 2

\* --- C19 --------------------------------------------------------------
\* C19: no step removes a record or changes its id, kind, owner or
\* issued_at; the active flag changes only from true to false and only on
\* a record of kind Refresh; and the update of refresh is made on a record
\* that is still active, so it is made once for a record.
C19_RecordsImmutable ==
  [][ /\ Len(ledger') >= Len(ledger)
      /\ \A i \in 1..Len(ledger) :
           /\ ledger'[i].id = ledger[i].id
           /\ ledger'[i].kind = ledger[i].kind
           /\ ledger'[i].uid = ledger[i].uid
           /\ ledger'[i].issued_at = ledger[i].issued_at
           /\ ledger'[i].active # ledger[i].active =>
                (ledger[i].active /\ ledger[i].kind = Refresh)
      /\ \A p \in Procs :
           (proc[p].pc = "refresh_update" /\ proc'[p].pc = "make_access") =>
             ledger[proc[p].jwt.id].active ]_vars

\* --- C20 --------------------------------------------------------------
\* C20: the loop of make_tag ends: a register call that has entered it
\* leaves it, whatever the user table holds.
C20_MakeTagTerminates ==
  \A p \in Procs : (proc[p].pc = "make_tag_loop") ~> (proc[p].pc # "make_tag_loop")

\* --- C21 --------------------------------------------------------------
\* C21: no request ends in a panic of its handler.
C21_NoPanic ==
  \A p \in Procs : proc[p].status # "Panic"

\* --- C22 --------------------------------------------------------------
\* C22: a call that met a store error is answered with a server error, and
\* a call that met none is not.
C22_StoreErrorsDistinct ==
  \A p \in Procs :
    LET r == proc[p] IN
    (r.op \in {"login", "refresh", "isactive", "gql"} /\ r.pc = "done"
       /\ r.status # "Panic") =>
      (r.store_failed <=> r.status = "InternalServerError")

\* --- C23 --------------------------------------------------------------
\* C23: with ACCESS or REFRESH not set the process does not get past its
\* start: no task ever waits for or serves a request.
C23_StartupFails ==
  (secrets[Access] = Absent \/ secrets[Refresh] = Absent) =>
    \A p \in Procs : proc[p].pc \in {"boot", "crashed"}

\* --- C24 --------------------------------------------------------------
\* C24: a request with more than one Authorization value is answered 401,
\* makes no select on the ledger and does not reach handle_gql.
C24_MultipleValuesRejected ==
  \A p \in Procs :
    LET r == proc[p] IN
    (r.op = "gql" /\ r.hdr = "multiple") =>
      /\ r.pc = "done" /\ r.status = "Unauthorized"
      /\ r.reads = 0 /\ ~r.ran
      /\ r.ext = NoRec /\ r.state_token = NoRec

\* Such a request has been answered while the ledger holds an active record.
C24_Witness ==
  \E p \in Procs :
    /\ proc[p].op = "gql" /\ proc[p].hdr = "multiple" /\ proc[p].pc = "done"
    /\ \E i \in 1..Len(ledger) : RecordUsable(i, now)

\* --- C25 --------------------------------------------------------------
\* C25: a request with no Authorization header, or with one value of
\* another scheme, reaches handle_gql with no claims and no State.token,
\* makes no select on the ledger and is not answered with an error.
C25_AnonymousPassThrough ==
  \A p \in Procs :
    LET r == proc[p] IN
    (r.op = "gql" /\ r.hdr \in {"absent", "other_scheme"}) =>
      /\ r.pc = "done" /\ r.status = "Ok" /\ r.ran
      /\ r.reads = 0
      /\ r.ext = NoRec /\ r.state_token = NoRec

\* A request with a value of another scheme has run.
C25_Witness ==
  \E p \in Procs :
    /\ proc[p].op = "gql" /\ proc[p].hdr = "other_scheme" /\ proc[p].ran
    /\ \E i \in 1..Len(ledger) : RecordUsable(i, now)

\* --- C26 --------------------------------------------------------------
\* The refresh token verifies and its record is a usable Refresh record.
ValidRefreshToken(token, t) ==
  /\ token # Malformed
  /\ token.key = secrets[Refresh]
  /\ token.exp + Leeway >= t
  /\ RecordUsable(token.jti, t)
  /\ ledger[token.jti].kind = Refresh

\* A refresh call is past its checks: at the update or inside make_jwts.
PastRefreshChecks(r) ==
  r.op = "refresh" /\ r.pc \in {"refresh_update", "make_access", "make_refresh"}

\* C26: a refresh call gets past its checks only with a token that verifies
\* as a Refresh token and whose record exists, is active, has not expired
\* and is of kind Refresh; a call that does not get past them ends without
\* having changed the ledger, and only a call past them changes it.
C26_FailedRefreshNoWrite ==
  [][\A p \in Procs :
       (proc'[p].op = "refresh" /\ proc'[p] # proc[p]) =>
         /\ (PastRefreshChecks(proc'[p]) /\ ~PastRefreshChecks(proc[p])) =>
               /\ ValidRefreshToken(proc'[p].token, now)
               /\ ledger' = ledger
         /\ (ledger' # ledger) => PastRefreshChecks(proc[p])
         /\ (proc'[p].pc = "done" /\ ~PastRefreshChecks(proc[p])) =>
               /\ ledger' = ledger
               /\ proc'[p].jwt = NoRec
               /\ proc'[p].access = NoRec
               /\ proc'[p].tokens = NoRec]_vars

\* A refresh was answered 400 for a token that verifies under the Refresh
\* secret and names an active record of kind Access, after another refresh
\* had deactivated a Refresh record.
C26_Witness ==
  \E p \in Procs :
    LET r == proc[p] IN
    /\ r.op = "refresh" /\ r.pc = "done" /\ r.status = "BadRequest"
    /\ ~r.store_failed
    /\ r.token.key = secrets[Refresh]
    /\ r.token.jti \in 1..Len(ledger)
    /\ ledger[r.token.jti].kind = Access
    /\ RecordUsable(r.token.jti, now)
    /\ \E i \in 1..Len(ledger) : ledger[i].kind = Refresh /\ ~ledger[i].active

\* --- C27 --------------------------------------------------------------
\* Number of rows of the given kind in the ledger.
CountKind(kind) ==
  Cardinality({ i \in 1..Len(ledger) : ledger[i].kind = kind })

\* C27: when a login or refresh call has finished and no other call is
\* between the two makes of make_jwts, the ledger holds as many Access rows
\* as Refresh rows, and a call that created a row returned its pair.
C27_RecordsInPairs ==
  \A p \in Procs :
    LET r == proc[p] IN
    (r.pc = "done" /\ r.op \in {"login", "refresh"}
       /\ \A q \in Procs \ {p} : proc[q].pc # "make_refresh") =>
      /\ CountKind(Access) = CountKind(Refresh)
      /\ r.access # NoRec => (r.status = "Ok" /\ r.tokens # NoRec)

\* --- C28 --------------------------------------------------------------
\* C28: the iat and exp a token carries on the wire, decoded and encoded
\* again, are the numbers that were decoded; and decoded, they are, to the
\* second, the instants make encoded: issued_at of the record and
\* issued_at + lifetime.
C28_TimestampRoundTrip ==
  \A p \in Procs :
    LET r == proc[p] IN
    (r.pc = "done" /\ r.op \in {"login", "refresh"} /\ r.tokens # NoRec) =>
      \A k \in Kinds :
        LET token == IF k = Access THEN r.tokens.access ELSE r.tokens.refresh
            claims == demake(k, token, token.iat)
        IN  /\ claims # Malformed
            /\ jwt_numeric_date_serialize(claims.iat) = token.iat
            /\ jwt_numeric_date_serialize(claims.exp) = token.exp
            /\ claims.iat \div 1000 = ledger[token.jti].issued_at
            /\ claims.exp \div 1000 = ledger[token.jti].issued_at + Lifetime(k)

\* --- C29 --------------------------------------------------------------
\* The call presented an issued access token that is within its lifetime
\* and met no store error.
LiveAccessCall(r) ==
  /\ r.pc = "done" /\ ~r.store_failed
  /\ r.token \in IssuedTokens
  /\ r.token.sub = Access
  /\ now <= ledger[r.token.jti].issued_at + Lifetime(Access)

\* C29: every Access row of the ledger is active; and an issued access
\* token within its 10 minutes is reported active by the probe and accepted
\* by the middleware and handle_gql, whatever refresh has done since.
C29_AccessSurvivesRefresh ==
  /\ \A i \in 1..Len(ledger) : ledger[i].kind = Access => ledger[i].active
  /\ \A p \in Procs :
       LET r == proc[p] IN
       /\ (r.op = "isactive" /\ LiveAccessCall(r)) =>
            (r.status = "Ok" /\ r.probe = "true")
       /\ (r.op = "gql" /\ r.hdr = "bearer" /\ LiveAccessCall(r)) =>
            /\ r.status = "Ok" /\ r.ran
            /\ r.ext = r.token
            /\ r.state_token # NoRec

\* The middleware accepted an access token after a refresh had consumed the
\* refresh token issued with it.
C29_Witness ==
  \E p \in Procs :
    LET r == proc[p] IN
    /\ r.op = "gql" /\ r.hdr = "bearer" /\ LiveAccessCall(r)
    /\ r.status = "Ok" /\ r.state_token # NoRec
    /\ r.token.jti + 1 \in 1..Len(ledger)
    /\ ledger[r.token.jti + 1].kind = Refresh
    /\ ~ledger[r.token.jti + 1].active
    /\ \E i \in 1..Len(consumed) : consumed[i].jti = r.token.jti + 1

\* --- C30 --------------------------------------------------------------
\* What a finished request or connection init decided.
Outcome(r) ==
  IF r.status = "Ok" /\ r.state_token # NoRec THEN "identity"
  ELSE IF r.status = "Ok" /\ r.ran THEN "anonymous"
  ELSE "reject"

\* The token is active in the ledger and verifies under the Access key.
ActiveAndVerified(token, t) ==
  /\ token # Malformed /\ token # NoRec
  /\ RecordUsable(token.jti, t)
  /\ token.key = secrets[Access]
  /\ token.exp + Leeway >= t

\* The decision as stated: identity, anonymous without a token, else reject.
StatedDecision(hdr, token, t) ==
  IF hdr = "absent" THEN "anonymous"
  ELSE IF ActiveAndVerified(token, t) /\ token.sub # Refresh THEN "identity"
  ELSE "reject"

\* The decision with an active, verified Refresh token left anonymous.
AmendedDecision(hdr, token, t) ==
  IF hdr = "absent" THEN "anonymous"
  ELSE IF hdr = "no_field" THEN "reject"
  ELSE IF ActiveAndVerified(token, t)
       THEN IF token.sub = Refresh THEN "anonymous" ELSE "identity"
       ELSE "reject"

\* A request or connection init that supplied no token or one token and met
\* no store error has been decided.
Decided(r) ==
  /\ r.op \in {"gql", "sub"} /\ r.pc = "done" /\ ~r.store_failed
  /\ r.hdr \in {"absent", "no_field", "bearer"}

====
